---- MODULE Spec2Model ----
(***************************************************************************)
(* Model of articy-node's embedded-script text resolver: the peggy-        *)
(* generated parser (peg$parse and its rule functions), the grammar        *)
(* actions of the .peggy source, and the processEmbed selection engine     *)
(* the actions call.                                                       *)
(*                                                                         *)
(* Strings are sequences of one-character strings.  Offsets are 0-based    *)
(* as in the generated parser; input.charAt(i) is input[i + 1].            *)
(***************************************************************************)
EXTENDS Integers, Sequences, FiniteSets, TLC

VARIABLES
    input,      \* the source text handed to parse
    store,      \* Sequence State Store of the session: identity -> state
    round,      \* number of parse calls made on input in this session
    last,       \* outcome of the most recent parse call
    outs,       \* results of the most recent parse calls, oldest first,
                \* kept while allTrue
    allTrue,    \* every guard written in input was true in every round so far
    shape,      \* how input was written (the authored directive)
    languages,      \* Localization.languages: language -> (id -> string)
    activeLanguage, \* Localization.activeLanguage, <<>> for undefined
    ret,            \* the most recent call on the Localization and its outcome
    recent,         \* for each language the data of its most recent load
    firstLoaded,    \* the language of the first load, <<>> before it
    assigned        \* an assignment to Localization.active has succeeded

textVars == <<input, store, round, last, outs, allTrue, shape>>
locVars == <<languages, activeLanguage, ret, recent, firstLoaded, assigned>>
vars == <<textVars, locVars>>

--------------------------------------------------------------------------
(* Bounds of the model *)

MaxFree == 3        \* length of the free-form inputs
MaxBranches == 3    \* branches of an authored directive
MaxRounds == 6      \* evaluations of a text in one session
MaxContent == 3     \* items in the content of a wrapped branch
MaxDepth == 4       \* directives nested in one another

\* evaluations of an input whose parse raises an error
MaxFailedRounds == MaxRounds \div 3

\* evaluations of a free-form input in one session
MaxFreeRounds == MaxRounds \div 3

--------------------------------------------------------------------------
(* Strings *)

Min(a, b) == IF a < b THEN a ELSE b

\* input.charAt(i): "" past the end
CharAt(i) == IF i < Len(input) THEN input[i + 1] ELSE ""

\* input.substring(a, b)
Substring(a, b) == SubSeq(input, a + 1, b)

\* input.substr(pos, n) === lit
SubstrIs(pos, lit) ==
    /\ pos + Len(lit) <= Len(input)
    /\ SubSeq(input, pos + 1, pos + Len(lit)) = lit

WhitespaceChars == {" ", "\t", "\n", "\r"}

RECURSIVE TrimStart(_)
TrimStart(s) ==
    IF s # <<>> /\ Head(s) \in WhitespaceChars THEN TrimStart(Tail(s)) ELSE s

RECURSIVE TrimEnd(_)
TrimEnd(s) ==
    IF s # <<>> /\ s[Len(s)] \in WhitespaceChars
    THEN TrimEnd(SubSeq(s, 1, Len(s) - 1)) ELSE s

\* String.prototype.trim
Trim(s) == TrimEnd(TrimStart(s))

--------------------------------------------------------------------------
(* Expectations (peg$literalExpectation, peg$classExpectation, ...) *)

Literal(t) == [type |-> "literal", text |-> t]
Class(t) == [type |-> "class", text |-> t]
peg_endExpectation == [type |-> "end", text |-> ""]

peg_c2 == Literal("{")
peg_c4 == Literal("}")
peg_c7 == Class("[ \\t\\n\\r]")
peg_c10 == Literal("\\r")
peg_c12 == Literal("\\n")
peg_c15 == Literal("stopping:")
peg_c18 == Literal("~")
peg_c20 == Literal("shuffle:")
peg_c23 == Literal("&")
peg_c25 == Literal("cycle:")
peg_c28 == Literal("!")
peg_c30 == Literal("once:")
peg_c33 == Literal(":")
peg_c36 == Class("[^\\n|:{}]")
peg_c40 == Literal("|")
peg_c44 == Literal("-")
peg_c47 == Class("[^{}\\-]")
peg_c50 == Class("[^{}|\\r\\n]")
peg_c52 == Class("[^{}]")

\* the regular expressions peg$c6, peg$c35, peg$c46, peg$c49, peg$c51
RegExpClass(inverted, chars) == [inverted |-> inverted, chars |-> chars]
peg_c6 == RegExpClass(FALSE, WhitespaceChars)
peg_c35 == RegExpClass(TRUE, {"\n", "|", ":", "{", "}"})
peg_c46 == RegExpClass(TRUE, {"{", "}", "-"})
peg_c49 == RegExpClass(TRUE, {"{", "}", "|", "\r", "\n"})
peg_c51 == RegExpClass(TRUE, {"{", "}"})

\* regexp.test(ch) for ch = input.charAt(pos), which is "" past the end
Test(regexp, ch) ==
    /\ ch # ""
    /\ IF regexp.inverted THEN ch \notin regexp.chars ELSE ch \in regexp.chars

peg_c14 == <<"s", "t", "o", "p", "p", "i", "n", "g", ":">>
peg_c19 == <<"s", "h", "u", "f", "f", "l", "e", ":">>
peg_c24 == <<"c", "y", "c", "l", "e", ":">>
peg_c29 == <<"o", "n", "c", "e", ":">>

--------------------------------------------------------------------------
(* Parser state: the variables peg$parse declares, the options bundle, and *)
(* the session state processEmbed reads and writes.  err records an        *)
(* exception thrown out of a grammar action; it unwinds the whole parse.   *)

\* the evaluator's variable context is the set of guard texts that are true
GuardExprs == {<<"x">>}

RECURSIVE Perms(_)
Perms(S) ==
    IF S = {} THEN {<<>>}
    ELSE UNION {{<<e>> \o q : q \in Perms(S \ {e})} : e \in S}

\* outcomes of the injected random source: a ranking of the branch indices
RandomOutcomes == Perms(1..MaxBranches)

InitParser(options, st) ==
    [currPos |-> 0, maxFailPos |-> 0, maxFailExpected |-> <<>>,
     options |-> options, store |-> st, calls |-> <<>>, evals |-> <<>>,
     drawn |-> FALSE, err |-> "none", attempts |-> <<>>, monotone |-> TRUE,
     progress |-> TRUE]

\* the value of a set with one element: Only({e(x) : x \in {v}}) is e(v)
Only(S) == CHOOSE v \in S : TRUE

Res(ok, v, p) == [ok |-> ok, v |-> v, p |-> p]
Failed(p, s0) == Res(FALSE, <<>>, [p EXCEPT !.currPos = s0])

\* peg$fail that keeps the first failure instead of the furthest one
peg_fail_keepFirst(p, expected1) ==
    IF p.maxFailExpected # <<>> THEN p
    ELSE [p EXCEPT !.maxFailPos = p.currPos,
                   !.maxFailExpected = <<expected1>>]

\* peg$fail that replaces the expectations recorded at the furthest offset
peg_fail_replace(p, expected1) ==
    IF p.currPos < p.maxFailPos THEN p
    ELSE [p EXCEPT !.maxFailPos = p.currPos,
                   !.maxFailExpected = <<expected1>>]

peg_fail(p, expected1) ==
    IF p.currPos < p.maxFailPos THEN p
    ELSE IF p.currPos > p.maxFailPos
         THEN [p EXCEPT !.maxFailPos = p.currPos,
                        !.maxFailExpected = <<expected1>>]
         ELSE [p EXCEPT !.maxFailExpected = Append(@, expected1)]

\* if (peg$silentFails === 0) { peg$fail(expectation); } : peg$silentFails
\* is never raised, so every failed match attempt reports.  attempts keeps
\* the history of the reports, monotone that peg$maxFailPos never went back.
Fail(p, expectation) ==
    Only({ [q EXCEPT !.attempts = Append(@, [pos |-> p.currPos,
                                             expected |-> expectation]),
                     !.monotone = @ /\ q.maxFailPos >= p.maxFailPos]
         : q \in {peg_fail(p, expectation)} })

\* match of a literal string at peg$currPos
MatchLiteral(p, lit, expectation) ==
    IF p.err = "none" /\ SubstrIs(p.currPos, lit)
    THEN Res(TRUE, lit, [p EXCEPT !.currPos = @ + Len(lit)])
    ELSE Res(FALSE, <<>>, IF p.err = "none" THEN Fail(p, expectation) ELSE p)

\* number of characters from pos on that belong to the class
RECURSIVE RunLength(_, _)
RunLength(regexp, pos) ==
    IF Test(regexp, CharAt(pos)) THEN 1 + RunLength(regexp, pos + 1) ELSE 0

\* [class]* and [class]+ over the n characters of the class at peg$currPos:
\* the loop stops at the first character outside the class, where the one
\* failing test calls peg$fail
ClassRun(p, n, expectation, atLeastOne) ==
    Res(~(atLeastOne /\ n = 0),
        IF atLeastOne /\ n = 0 THEN <<>>
        ELSE Substring(p.currPos, p.currPos + n),
        Fail([p EXCEPT !.currPos = @ + n], expectation))

MatchClassRun(p, regexp, expectation, atLeastOne) ==
    IF p.err # "none" THEN Res(FALSE, <<>>, p)
    ELSE ClassRun(p, RunLength(regexp, p.currPos), expectation, atLeastOne)

RECURSIVE CountNewlines(_)
CountNewlines(pos) ==
    IF pos = 0 THEN 0
    ELSE CountNewlines(pos - 1) + (IF input[pos] = "\n" THEN 1 ELSE 0)

RECURSIVE ColumnAt(_)
ColumnAt(pos) ==
    IF pos = 0 THEN 1
    ELSE IF input[pos] = "\n" THEN 1 ELSE ColumnAt(pos - 1) + 1

\* position details read from a cache that outlives the parse call
peg_computePosDetails_stale(pos) ==
    [line |-> 1 + CountNewlines(pos), column |-> ColumnAt(pos) + round]

peg_computePosDetails(pos) ==
    [line |-> 1 + CountNewlines(pos), column |-> ColumnAt(pos)]

peg_computeLocation(startPos, endPos) ==
    LET startPosDetails == peg_computePosDetails(startPos)
        endPosDetails == peg_computePosDetails(endPos)
    IN  [start |-> [offset |-> startPos, line |-> startPosDetails.line,
                    column |-> startPosDetails.column],
         end |-> [offset |-> endPos, line |-> endPosDetails.line,
                  column |-> endPosDetails.column]]

--------------------------------------------------------------------------
(* Rules without recursion.  A rule function's locals s0, s1, s2, ... are  *)
(* bound in the order the function assigns them; the binding of each is    *)
(* written after the code that uses it.                                    *)

\* Whitespace = [ \t\n\r]* { return undefined; }
peg_parseWhitespace(p) == MatchClassRun(p, peg_c6, peg_c7, FALSE)

\* Newline = '\r'? '\n' { return undefined; }
peg_parseNewline(p) ==
    Only({ IF s2.ok THEN Res(TRUE, <<>>, s2.p) ELSE Failed(s2.p, p.currPos)
         : s2 \in {MatchLiteral(MatchLiteral(p, <<"\r">>, peg_c10).p,
                                <<"\n">>, peg_c12)} })

SeqType(kind) == [kind |-> kind, expr |-> <<>>, text |-> <<>>]
NoType == SeqType("null")

\* the action of an _Id rule: return EmbedType.<kind>
Typed(s1, kind) == IF s1.ok THEN Res(TRUE, SeqType(kind), s1.p) ELSE s1

\* e1 / e2 : the second alternative is tried where the first one failed
OrElse(s1, lit, expectation) ==
    IF s1.ok THEN s1 ELSE MatchLiteral(s1.p, lit, expectation)

peg_parseStopping_Id(p) ==
    Typed(MatchLiteral(p, peg_c14, peg_c15), "Stopping")

peg_parseShuffle_Id(p) ==
    Typed(OrElse(MatchLiteral(p, <<"~">>, peg_c18), peg_c19, peg_c20),
          "Shuffle")

peg_parseCycle_Id(p) ==
    Typed(OrElse(MatchLiteral(p, <<"&">>, peg_c23), peg_c24, peg_c25),
          "Cycle")

peg_parseOnce_Only_Id(p) ==
    Typed(OrElse(MatchLiteral(p, <<"!">>, peg_c28), peg_c29, peg_c30),
          "OnlyOnce")

\* Type = Stopping_Id / Shuffle_Id / Cycle_Id / Once_Only_Id
peg_parseType(p) ==
    Only({ IF a.ok THEN a ELSE
    Only({ IF b.ok THEN b ELSE
    Only({ IF c.ok THEN c ELSE peg_parseOnce_Only_Id(c.p)
         : c \in {peg_parseCycle_Id(b.p)} })
         : b \in {peg_parseShuffle_Id(a.p)} })
         : a \in {peg_parseStopping_Id(p)} })

\* Expression = [^\n|:{}]+ { return text(); }
peg_parseExpression(p) == MatchClassRun(p, peg_c35, peg_c36, TRUE)

\* Condition without the Whitespace after the colon
peg_parseCondition_noWhitespace(p) ==
    Only({ IF ~s1.ok THEN Failed(s1.p, p.currPos) ELSE
    Only({ IF ~s2.ok THEN Failed(s2.p, p.currPos) ELSE
           Res(TRUE, [kind |-> "expr", expr |-> s1.v,
                      text |-> Substring(p.currPos, s2.p.currPos)], s2.p)
         : s2 \in {MatchLiteral(s1.p, <<":">>, peg_c33)} })
         : s1 \in {peg_parseExpression(p)} })

\* Condition = expr:Expression ':' Whitespace
\*             { return {"expr": expr, "text": text()}; }
peg_parseCondition(p) ==
    Only({ IF ~s1.ok THEN Failed(s1.p, p.currPos) ELSE
    Only({ IF ~s2.ok THEN Failed(s2.p, p.currPos) ELSE
    Only({ IF ~s3.ok THEN Failed(s3.p, p.currPos) ELSE
           Res(TRUE, [kind |-> "expr", expr |-> s1.v,
                      text |-> Substring(p.currPos, s3.p.currPos)], s3.p)
         : s3 \in {peg_parseWhitespace(s2.p)} })
         : s2 \in {MatchLiteral(s1.p, <<":">>, peg_c33)} })
         : s1 \in {peg_parseExpression(p)} })

\* InlineMultilineText written with the character class of Text
peg_parseInlineMultilineText_textClass(p) ==
    Only({ IF s1.ok THEN Res(TRUE, Trim(s1.v), s1.p) ELSE s1
         : s1 \in {MatchClassRun(p, peg_c51, peg_c47, TRUE)} })

\* InlineMultilineText = [^{}-]+ { return text().trim(); }
peg_parseInlineMultilineText(p) ==
    Only({ IF s1.ok THEN Res(TRUE, Trim(s1.v), s1.p) ELSE s1
         : s1 \in {MatchClassRun(p, peg_c46, peg_c47, TRUE)} })

\* InlineText = [^{}|\r\n]+ { return text(); }
peg_parseInlineText(p) == MatchClassRun(p, peg_c49, peg_c50, TRUE)

\* Text written with the character class of InlineText
peg_parseText_inlineClass(p) == MatchClassRun(p, peg_c49, peg_c52, TRUE)

\* Text = [^{}]+ { return text(); }
peg_parseText(p) == MatchClassRun(p, peg_c51, peg_c52, TRUE)

--------------------------------------------------------------------------
(* processEmbed (./inline_util): the selection engine the grammar actions  *)
(* call.  Its identity for a directive is the offset of the directive's    *)
(* span; its state lives in the session's Sequence State Store.            *)

Unvisited == [counter |-> 0, order |-> <<>>, cursor |-> 0]

StateOf(st, id) == IF id \in DOMAIN st THEN st[id] ELSE Unvisited

\* evaluate(guardSourceText, variableContext)
Evaluate(expr, ctx) == expr \in ctx

\* the text a branch contributes: its content without the guard
Content(arg) == IF arg.hasExpr THEN arg.value ELSE arg.full

Indices(n) == [i \in 1..n |-> i]

\* branches whose guard (if any) is true this round, in authoring order
Eligible(args, ctx) ==
    SelectSeq(Indices(Len(args)),
              LAMBDA i : ~args[i].hasExpr \/ Evaluate(args[i].expr, ctx))

InSeq(x, s) == \E i \in 1..Len(s) : s[i] = x

\* a fresh permutation of the eligible indices drawn from the random
\* source, the just-emitted entry kept out of the first place
NewOrder(eligible, rnd, justEmitted) ==
    LET drawn == SelectSeq(rnd, LAMBDA i : InSeq(i, eligible))
                   \o SelectSeq(eligible, LAMBDA i : ~InSeq(i, rnd))
    IN  IF Len(drawn) > 1 /\ drawn[1] = justEmitted
        THEN <<drawn[2], drawn[1]>> \o SubSeq(drawn, 3, Len(drawn))
        ELSE drawn

\* [idx, state]: the branch index a Stopping directive selects
SelectStopping(s, eligible, rnd) ==
    [idx |-> eligible[Min(s.counter, Len(eligible) - 1) + 1],
     state |-> [s EXCEPT !.counter = @ + 1]]

SelectCycle(s, eligible, rnd) ==
    [idx |-> eligible[(s.counter % Len(eligible)) + 1],
     state |-> [s EXCEPT !.counter = @ + 1]]

SelectOnceOnly(s, eligible, rnd) ==
    IF s.counter < Len(eligible)
    THEN [idx |-> eligible[s.counter + 1],
          state |-> [s EXCEPT !.counter = @ + 1]]
    ELSE [idx |-> 0, state |-> s]

SelectShuffle(s, eligible, rnd) ==
    LET s1 == IF s.cursor >= Len(s.order)
              THEN [s EXCEPT !.order = NewOrder(eligible, rnd, 0),
                             !.cursor = 0]
              ELSE s
        idx == s1.order[s1.cursor + 1]
    IN  [idx |-> idx,
         state |-> IF s1.cursor + 1 >= Len(s1.order)
                   THEN [s1 EXCEPT !.order = NewOrder(eligible, rnd, idx),
                                   !.cursor = 0]
                   ELSE [s1 EXCEPT !.cursor = @ + 1]]

\* Directive Classifier: no marker and no condition is a Stopping list
KindOf(type) ==
    IF type.kind = "expr" THEN "Conditional"
    ELSE IF type.kind = "null" THEN "Stopping"
    ELSE type.kind

SelectList(kind, s, eligible, rnd) ==
    IF eligible = <<>> THEN [idx |-> 0, state |-> s]
    ELSE IF kind = "Stopping" THEN SelectStopping(s, eligible, rnd)
    ELSE IF kind = "Cycle" THEN SelectCycle(s, eligible, rnd)
    ELSE IF kind = "OnlyOnce" THEN SelectOnceOnly(s, eligible, rnd)
    ELSE SelectShuffle(s, eligible, rnd)

CallRecord(id, endPos, type, args, multiline, eligible, idx, out, s, t) ==
    [id |-> id, end |-> endPos, type |-> type.kind, expr |-> type.expr,
     args |-> args, multiline |-> multiline, eligible |-> eligible, idx |-> idx,
     out |-> out, before |-> s, after |-> t]

\* processEmbed for a Conditional directive: the guard picks the first
\* branch, or the second one if there is one
ProcessConditional(p, type, args, multiline, id, before, g, idx) ==
    Res(TRUE, IF idx = 0 THEN <<>> ELSE Content(args[idx]),
        [p EXCEPT !.evals = Append(@, [expr |-> type.expr, value |-> g]),
                  !.calls = Append(@, CallRecord(id, p.currPos, type, args,
                      multiline, <<>>, idx,
                      IF idx = 0 THEN <<>> ELSE Content(args[idx]),
                      before, before))])

\* processEmbed for a list directive whose selection is sel
ProcessList(p, type, args, multiline, id, before, eligible, sel, guards) ==
    Res(TRUE, IF sel.idx = 0 THEN <<>> ELSE Content(args[sel.idx]),
        [p EXCEPT !.store = IF sel.state = before THEN @
                            ELSE (id :> sel.state) @@ @,
                  !.evals = @ \o [i \in 1..Len(guards) |->
                      [expr |-> args[guards[i]].expr,
                       value |-> Evaluate(args[guards[i]].expr,
                                          p.options.ctx)]],
                  !.drawn = @ \/ (/\ KindOf(type) = "Shuffle"
                                  /\ sel.state.order # before.order),
                  !.calls = Append(@, CallRecord(id, p.currPos, type, args,
                      multiline, eligible, sel.idx,
                      IF sel.idx = 0 THEN <<>> ELSE Content(args[sel.idx]),
                      before, sel.state))])

\* processEmbed(type, args, multiline, options, expected) for the directive
\* whose span starts at offset id
processEmbed(p, type, args, multiline, id) ==
    IF KindOf(type) = "Conditional"
    THEN IF Len(args) > 2
         THEN Res(FALSE, <<>>,
                  [p EXCEPT !.err = "DefinitionError",
                            !.calls = Append(@, CallRecord(id, p.currPos, type,
                                args, multiline, <<>>, 0, <<>>,
                                StateOf(p.store, id), StateOf(p.store, id)))])
         ELSE ProcessConditional(p, type, args, multiline, id,
                  StateOf(p.store, id), Evaluate(type.expr, p.options.ctx),
                  IF Evaluate(type.expr, p.options.ctx) THEN 1
                  ELSE IF Len(args) = 2 THEN 2 ELSE 0)
    ELSE ProcessList(p, type, args, multiline, id, StateOf(p.store, id),
             Eligible(args, p.options.ctx),
             SelectList(KindOf(type), StateOf(p.store, id),
                        Eligible(args, p.options.ctx), p.options.rnd),
             SelectSeq(Indices(Len(args)), LAMBDA i : args[i].hasExpr))

--------------------------------------------------------------------------
(* Recursive rules *)

RECURSIVE peg_parseEmbed(_), SourceLoop(_, _), InlineSourceLoop(_, _),
          InlineMultilineSourceLoop(_, _), ArgumentsLoop(_, _),
          MultiLineArgumentsLoop(_, _)

\* text / Embed : Embed is tried where the text rule failed
OrEmbed(s2) == IF s2.ok THEN s2 ELSE peg_parseEmbed(s2.p)

\* the parser after the iteration s2 of a repetition that began at p:
\* progress keeps whether every iteration so far has moved peg$currPos on
Iterated(p, s2) ==
    [s2.p EXCEPT !.progress = @ /\ s2.p.currPos > p.currPos]

\* Source = contents:(Text / Embed)* { return contents.join(''); }
SourceLoop(p, s1) ==
    Only({ IF s2.ok THEN SourceLoop(Iterated(p, s2), s1 \o s2.v)
           ELSE Res(TRUE, s1, s2.p)
         : s2 \in {OrEmbed(peg_parseText(p))} })

peg_parseSource(p) == SourceLoop(p, <<>>)

\* InlineSource = contents:(InlineText / Embed)+
\*                { return contents.join(''); }
InlineSourceLoop(p, s1) ==
    Only({ IF s2.ok THEN InlineSourceLoop(Iterated(p, s2), s1 \o s2.v)
           ELSE Res(TRUE, s1, s2.p)
         : s2 \in {OrEmbed(peg_parseInlineText(p))} })

peg_parseInlineSource(p) ==
    Only({ IF s2.ok THEN InlineSourceLoop(Iterated(p, s2), s2.v)
           ELSE Res(FALSE, <<>>, s2.p)
         : s2 \in {OrEmbed(peg_parseInlineText(p))} })

\* InlineMultilineSource = contents:(InlineMultilineText / Embed)+
\*                         { return contents.join(''); }
InlineMultilineSourceLoop(p, s1) ==
    Only({ IF s2.ok THEN InlineMultilineSourceLoop(Iterated(p, s2), s1 \o s2.v)
           ELSE Res(TRUE, s1, s2.p)
         : s2 \in {OrEmbed(peg_parseInlineMultilineText(p))} })

peg_parseInlineMultilineSource(p) ==
    Only({ IF s2.ok THEN InlineMultilineSourceLoop(Iterated(p, s2), s2.v)
           ELSE Res(FALSE, <<>>, s2.p)
         : s2 \in {OrEmbed(peg_parseInlineMultilineText(p))} })

\* Argument = arg:InlineSource?
\*            { return { full: arg ?? '', location: location() }; }
peg_parseArgument(p) ==
    Only({ Res(TRUE,
               [full |-> IF s1.ok THEN s1.v ELSE <<>>, hasExpr |-> FALSE,
                expr |-> <<>>, value |-> <<>>,
                location |-> peg_computeLocation(p.currPos, s1.p.currPos)],
               s1.p)
         : s1 \in {peg_parseInlineSource(p)} })

\* rest:('|' Argument)*
ArgumentsLoop(p, s2) ==
    Only({ IF ~s4.ok THEN Res(TRUE, s2, [s4.p EXCEPT !.currPos = p.currPos])
           ELSE
    Only({ IF ~s5.ok THEN Res(TRUE, s2, [s5.p EXCEPT !.currPos = p.currPos])
           ELSE ArgumentsLoop(Iterated(p, s5), Append(s2, s5.v))
         : s5 \in {peg_parseArgument(s4.p)} })
         : s4 \in {MatchLiteral(p, <<"|">>, peg_c40)} })

\* Arguments = first:Argument rest:('|' Argument)*
\*     { return [first, ...rest]; }
peg_parseArguments(p) ==
    Only({ ArgumentsLoop(s1.p, <<s1.v>>) : s1 \in {peg_parseArgument(p)} })

\* the action of MultilineArgument for cond s1 and value s2:
\*     { if (cond) return { expr: cond.expr, value: value ?? '',
\*                          full: cond.text + (value ?? ''), location };
\*       return { full: value ?? '', location }; }
MultilineArgumentValue(s0, s1, s2, value) ==
    IF s1.ok
    THEN [full |-> s1.v.text \o value, hasExpr |-> TRUE, expr |-> s1.v.expr,
          value |-> value, location |-> peg_computeLocation(s0, s2.p.currPos)]
    ELSE [full |-> value, hasExpr |-> FALSE, expr |-> <<>>, value |-> <<>>,
          location |-> peg_computeLocation(s0, s2.p.currPos)]

\* MultilineArgument without the optional Condition
peg_parseMultilineArgument_noCondition(p) ==
    Only({ Res(TRUE,
               MultilineArgumentValue(p.currPos, Res(FALSE, <<>>, p), s2,
                                      IF s2.ok THEN s2.v ELSE <<>>),
               s2.p)
         : s2 \in {peg_parseInlineMultilineSource(p)} })

\* MultilineArgument = cond:Condition? value:InlineMultilineSource?
peg_parseMultilineArgument(p) ==
    Only({
    Only({ Res(TRUE,
               MultilineArgumentValue(p.currPos, s1, s2,
                                      IF s2.ok THEN s2.v ELSE <<>>),
               s2.p)
         : s2 \in {peg_parseInlineMultilineSource(s1.p)} })
         : s1 \in {peg_parseCondition(p)} })

\* one ('-' Whitespace MultilineArgument Whitespace) of MultiLineArguments
MultiLineEntry(p) ==
    Only({ IF ~s4.ok THEN Failed(s4.p, p.currPos) ELSE
    Only({ IF ~s5.ok THEN Failed(s5.p, p.currPos) ELSE
    Only({ IF ~s6.ok THEN Failed(s6.p, p.currPos) ELSE
    Only({ IF ~s7.ok THEN Failed(s7.p, p.currPos) ELSE Res(TRUE, s6.v, s7.p)
         : s7 \in {peg_parseWhitespace(s6.p)} })
         : s6 \in {peg_parseMultilineArgument(s5.p)} })
         : s5 \in {peg_parseWhitespace(s4.p)} })
         : s4 \in {MatchLiteral(p, <<"-">>, peg_c44)} })

MultiLineArgumentsLoop(p, s2) ==
    Only({ IF s3.ok
           THEN MultiLineArgumentsLoop(Iterated(p, s3), Append(s2, s3.v))
           ELSE Res(TRUE, s2, s3.p)
         : s3 \in {MultiLineEntry(p)} })

\* MultiLineArguments =
\*     Whitespace args:('-' Whitespace MultilineArgument Whitespace)+
\*     { return args.map(x => x[2]); }
peg_parseMultiLineArguments(p) ==
    Only({ IF ~s1.ok THEN Failed(s1.p, p.currPos) ELSE
    Only({ IF s3.ok THEN MultiLineArgumentsLoop(Iterated(s1.p, s3), <<s3.v>>)
           ELSE Failed(s3.p, p.currPos)
         : s3 \in {MultiLineEntry(s1.p)} })
         : s1 \in {peg_parseWhitespace(p)} })

\* (Condition / Type)? : null where neither matches
ConditionOrType(c) == IF c.ok THEN c ELSE peg_parseType(c.p)

Optional(t) == IF t.ok THEN t.v ELSE NoType

\* InlineEmbed whose closing brace may be missing
peg_parseInlineEmbed_unclosed(p) ==
    Only({ IF ~s1.ok THEN Failed(s1.p, p.currPos) ELSE
    Only({
    Only({ IF ~s3.ok THEN Failed(s3.p, p.currPos) ELSE
    Only({ processEmbed(IF s4.ok THEN s4.p
                        ELSE [s4.p EXCEPT !.currPos = s3.p.currPos],
                        Optional(s2), s3.v, FALSE, p.currPos)
         : s4 \in {MatchLiteral(s3.p, <<"}">>, peg_c4)} })
         : s3 \in {peg_parseArguments(s2.p)} })
         : s2 \in {ConditionOrType(peg_parseCondition(s1.p))} })
         : s1 \in {MatchLiteral(p, <<"{">>, peg_c2)} })

\* InlineEmbed = '{' type:(Condition / Type)? args:Arguments '}'
\*     { return processEmbed(type, args, false, options, expected); }
peg_parseInlineEmbed(p) ==
    Only({ IF ~s1.ok THEN Failed(s1.p, p.currPos) ELSE
    Only({
    Only({ IF ~s3.ok THEN Failed(s3.p, p.currPos) ELSE
    Only({ IF ~s4.ok THEN Failed(s4.p, p.currPos) ELSE
           processEmbed(s4.p, Optional(s2), s3.v, FALSE, p.currPos)
         : s4 \in {MatchLiteral(s3.p, <<"}">>, peg_c4)} })
         : s3 \in {peg_parseArguments(s2.p)} })
         : s2 \in {ConditionOrType(peg_parseCondition(s1.p))} })
         : s1 \in {MatchLiteral(p, <<"{">>, peg_c2)} })

\* MutliLineEmbed = '{' type:Type? Newline args:MultiLineArguments '}'
\*     { return processEmbed(type, args, true, options, expected); }
peg_parseMutliLineEmbed(p) ==
    Only({ IF ~s1.ok THEN Failed(s1.p, p.currPos) ELSE
    Only({
    Only({ IF ~s3.ok THEN Failed(s3.p, p.currPos) ELSE
    Only({ IF ~s4.ok THEN Failed(s4.p, p.currPos) ELSE
    Only({ IF ~s5.ok THEN Failed(s5.p, p.currPos) ELSE
           processEmbed(s5.p, Optional(s2), s4.v, TRUE, p.currPos)
         : s5 \in {MatchLiteral(s4.p, <<"}">>, peg_c4)} })
         : s4 \in {peg_parseMultiLineArguments(s3.p)} })
         : s3 \in {peg_parseNewline(s2.p)} })
         : s2 \in {peg_parseType(s1.p)} })
         : s1 \in {MatchLiteral(p, <<"{">>, peg_c2)} })

\* Embed = InlineEmbed / MutliLineEmbed
peg_parseEmbed(p) ==
    Only({ IF s0.ok THEN s0 ELSE peg_parseMutliLineEmbed(s0.p)
         : s0 \in {peg_parseInlineEmbed(p)} })

--------------------------------------------------------------------------
(* peg$parse *)

NoLocation == peg_computeLocation(0, 0)

Outcome(status, result, expected, found, location, p) ==
    [status |-> status, result |-> result, expected |-> expected,
     found |-> found, location |-> location, store |-> p.store,
     calls |-> p.calls, evals |-> p.evals, drawn |-> p.drawn,
     attempts |-> p.attempts, monotone |-> p.monotone,
     progress |-> p.progress]

\* the throw at the end of peg$parse: peg$buildStructuredError of the
\* furthest failure q
SyntaxError(q) ==
    Outcome("SyntaxError", <<>>, q.maxFailExpected, CharAt(q.maxFailPos),
            IF q.maxFailPos < Len(input)
            THEN peg_computeLocation(q.maxFailPos, q.maxFailPos + 1)
            ELSE peg_computeLocation(q.maxFailPos, q.maxFailPos),
            q)

\* the outcome of parse(input, options) in a session whose store is st
peg_parse(options, st) ==
    Only({ IF r.p.err # "none"
           THEN Outcome(r.p.err, <<>>, <<>>, "", NoLocation, r.p)
           ELSE IF r.ok /\ r.p.currPos = Len(input)
           THEN Outcome("ok", r.v, <<>>, "", NoLocation, r.p)
           ELSE IF r.ok /\ r.p.currPos < Len(input)
           THEN SyntaxError(Fail(r.p, peg_endExpectation))
           ELSE SyntaxError(r.p)
         : r \in {peg_parseSource(InitParser(options, st))} })

--------------------------------------------------------------------------
(* Authored inputs *)

FreeChars == {"{", "}", "|", ":", "-", "~", "x", "\n"}

RECURSIVE Strings(_, _)
Strings(chars, n) ==
    IF n = 0 THEN {<<>>}
    ELSE LET shorter == Strings(chars, n - 1)
         IN  shorter \cup {Append(w, c) : w \in {v \in shorter : Len(v) = n - 1},
                                          c \in chars}

Letters == <<"A", "B", "C", "D", "E", "F">>
BranchText(i) == <<Letters[i]>>

SequenceMarkers ==
    {<<>>, <<"~">>, <<"&">>, <<"!">>, peg_c14, peg_c19, peg_c24, peg_c29}

Markers ==
    SequenceMarkers
    \cup {peg_c14 \o <<" ">>, <<"x", ":">>, <<"x", ":", " ">>}

\* the line break after the opening of a dash list, and what follows its
\* last branch
Layouts ==
    {<<<<"\n">>, <<"\n">>>>, <<<<"\r", "\n">>, <<>>>>}

\* which branches of a dash list carry a guard
GuardPatterns(n) == {{}, 1..n, {1}}


\* what the one branch of a wrapped directive is written with: characters
\* and the nested directive {B}
WrapItems ==
    {<<" ">>, <<"A">>, <<"|">>, <<"\n">>, <<"-">>, <<"{", "B", "}">>}

\* the items written one after the other
RECURSIVE Flat(_)
Flat(items) == IF items = <<>> THEN <<>> ELSE Head(items) \o Flat(Tail(items))

\* markers of a directive and of the directive nested in one of its branches
NestMarkers == {<<>>, <<"&">>, <<"!">>}

Shapes ==
    [family : {"free"}, text : Strings(FreeChars, MaxFree)]
    \cup
    {[family |-> "pipe", marker |-> m, n |-> n, closed |-> c] :
        m \in Markers, n \in 1..MaxBranches, c \in BOOLEAN}
    \cup
    UNION {{[family |-> "dash", marker |-> m, nl |-> lay[1], n |-> n,
             guarded |-> g, tail |-> lay[2]] :
               m \in SequenceMarkers, lay \in Layouts,
               g \in GuardPatterns(n)} :
           n \in 1..MaxBranches}
    \cup
    [family : {"wrap"}, multi : BOOLEAN,
     content : Strings(WrapItems, MaxContent)]
    \cup
    [family : {"nest"}, outer : NestMarkers, inner : NestMarkers,
     first : BOOLEAN]
    \cup
    [family : {"deep"}, depth : 1..MaxDepth]
    \cup
    [family : {"lines"}, marker : SequenceMarkers, inner : NestMarkers,
     tail : {<<"\n">>, <<>>}]

RECURSIVE PipeBody(_)
PipeBody(n) ==
    IF n = 1 THEN BranchText(1) ELSE PipeBody(n - 1) \o <<"|">> \o BranchText(n)

DashEntry(i, guarded) ==
    <<"-">> \o (IF i \in guarded THEN <<"x", ":">> ELSE <<>>)
            \o BranchText(i)

RECURSIVE DashBody(_, _)
DashBody(n, guarded) ==
    IF n = 1 THEN DashEntry(1, guarded)
    ELSE DashBody(n - 1, guarded) \o <<"\n">> \o DashEntry(n, guarded)

\* a directive of two branches B|C
Inner(marker) ==
    <<"{">> \o marker \o BranchText(2) \o <<"|">> \o BranchText(3) \o <<"}">>

\* A nested depth directives deep
RECURSIVE Nested(_)
Nested(depth) ==
    IF depth = 0 THEN BranchText(1)
    ELSE <<"{">> \o Nested(depth - 1) \o <<"}">>

Build(sh) ==
    IF sh.family = "free" THEN sh.text
    ELSE IF sh.family = "wrap"
    THEN IF sh.multi
         THEN <<"{", "\n", "-">> \o Flat(sh.content) \o <<"\n", "}">>
         ELSE <<"{">> \o Flat(sh.content) \o <<"}">>
    ELSE IF sh.family = "nest"
    THEN <<"{">> \o sh.outer
         \o (IF sh.first THEN Inner(sh.inner) \o <<"|">> \o BranchText(1)
             ELSE BranchText(1) \o <<"|">> \o Inner(sh.inner))
         \o <<"}">>
    ELSE IF sh.family = "deep" THEN Nested(sh.depth)
    ELSE IF sh.family = "lines"
    THEN <<"{">> \o sh.marker \o <<"\n", "-">> \o BranchText(1)
         \o Inner(sh.inner) \o sh.tail \o <<"}">>
    ELSE IF sh.family = "pipe"
    THEN <<"{">> \o sh.marker \o PipeBody(sh.n)
         \o (IF sh.closed THEN <<"}">> ELSE <<>>)
    ELSE <<"{">> \o sh.marker \o sh.nl \o DashBody(sh.n, sh.guarded)
         \o sh.tail \o <<"}">>

--------------------------------------------------------------------------
(* The Localization class.  A value that may be undefined is <<>> when it  *)
(* is undefined and <<v>> when it is v.                                    *)

undefined == <<>>
Some(v) == <<v>>

\* language names, the empty string among them
LanguageNames == {"", "en", "de"}
LanguageArgs == {undefined} \cup {Some(l) : l \in LanguageNames}

\* localization ids and the strings they are mapped to
Ids == {"k"}
QueryIds == Ids \cup {"z"}
Texts == {"s", "t"}

\* data: Record<string, string>
Datas == UNION {[ks -> Texts] : ks \in SUBSET Ids}

\* !lang for lang: string | undefined
Falsy(lang) == lang = undefined \/ lang = Some("")

NoCall == [op |-> "none", language |-> undefined, id |-> "",
           threw |-> FALSE, value |-> undefined]

\* new Localization()
Localization ==
    /\ languages = <<>>
    /\ activeLanguage = undefined
    /\ ret = NoCall
    /\ recent = <<>>
    /\ firstLoaded = undefined
    /\ assigned = FALSE

\* a setter that assigns without the check
set_active_unchecked(lang) ==
    /\ activeLanguage' = lang
    /\ assigned' = TRUE
    /\ ret' = [NoCall EXCEPT !.op = "set active", !.language = lang]
    /\ UNCHANGED <<languages, recent, firstLoaded, textVars>>

\* set active(lang: string | undefined)
set_active(lang) ==
    /\ IF Falsy(lang) \/ lang[1] \notin DOMAIN languages
       THEN /\ ret' = [NoCall EXCEPT !.op = "set active", !.language = lang,
                                     !.threw = TRUE]
            /\ UNCHANGED <<activeLanguage, assigned>>
       ELSE /\ activeLanguage' = lang
            /\ assigned' = TRUE
            /\ ret' = [NoCall EXCEPT !.op = "set active", !.language = lang]
    /\ UNCHANGED <<languages, recent, firstLoaded, textVars>>

\* the Map that load builds: for (const key in data) map.set(key, data[key])
NewMap(data) == [key \in DOMAIN data |-> data[key]]

\* load that makes every loaded language the active one
load_alwaysActive(language, data) ==
    /\ languages' = (language :> NewMap(data)) @@ languages
    /\ activeLanguage' = Some(language)
    /\ ret' = [NoCall EXCEPT !.op = "load", !.language = Some(language)]
    /\ recent' = (language :> data) @@ recent
    /\ firstLoaded' = IF firstLoaded = undefined THEN Some(language)
                      ELSE firstLoaded
    /\ UNCHANGED <<assigned, textVars>>

\* load(language: string, data: Record<string, string>)
load(language, data) ==
    /\ languages' = (language :> NewMap(data)) @@ languages
    /\ activeLanguage' = IF activeLanguage = undefined THEN Some(language)
                         ELSE activeLanguage
    /\ ret' = [NoCall EXCEPT !.op = "load", !.language = Some(language)]
    /\ recent' = (language :> data) @@ recent
    /\ firstLoaded' = IF firstLoaded = undefined THEN Some(language)
                      ELSE firstLoaded
    /\ UNCHANGED <<assigned, textVars>>

\* this.languages.get(lang)?.get(id)
Lookup(lang, id) ==
    IF lang \notin DOMAIN languages THEN undefined
    ELSE IF id \notin DOMAIN languages[lang] THEN undefined
    ELSE Some(languages[lang][id])

\* language ?? this.activeLanguage
OrActive(language) == IF language = undefined THEN activeLanguage ELSE language

\* get(id: string, language?: string): string | undefined
get(id, language) ==
    /\ ret' = [NoCall EXCEPT
                 !.op = "get", !.language = language, !.id = id,
                 !.value = IF Falsy(OrActive(language)) THEN undefined
                           ELSE Lookup(OrActive(language)[1], id)]
    /\ UNCHANGED <<languages, activeLanguage, recent, firstLoaded, assigned,
                   textVars>>

--------------------------------------------------------------------------
(* The session: one text evaluated again and again *)

Identity == Indices(MaxBranches)

UsedGuards == {g \in GuardExprs : InSeq(g[1], input)}
Contexts == SUBSET UsedGuards

Window == MaxBranches + 1

NoParse ==
    [status |-> "none", result |-> <<>>, expected |-> <<>>, found |-> "",
     location |-> NoLocation, calls |-> <<>>, evals |-> <<>>, ctx |-> {},
     attempts |-> <<>>, monotone |-> TRUE, progress |-> TRUE]

Init ==
    /\ shape \in Shapes
    /\ input = Build(shape)
    /\ store = <<>>
    /\ round = 0
    /\ last = NoParse
    /\ outs = <<>>
    /\ allTrue = TRUE
    /\ Localization

\* the session after a parse call whose outcome is r
Record(r, ctx) ==
    /\ last' = [status |-> r.status, result |-> r.result,
                expected |-> r.expected, found |-> r.found,
                location |-> r.location, calls |-> r.calls,
                evals |-> r.evals, ctx |-> ctx, attempts |-> r.attempts,
                monotone |-> r.monotone, progress |-> r.progress]
    /\ store' = r.store
    /\ allTrue' = (allTrue /\ ctx = UsedGuards)
    /\ outs' = IF ~allTrue' THEN <<>>
               ELSE IF r.status # "ok" THEN outs
               ELSE IF Len(outs) < Window THEN Append(outs, r.result)
               ELSE Append(Tail(outs), r.result)
    /\ round' = round + 1
    /\ UNCHANGED <<input, shape, locVars>>

\* one evaluation of the text: parse(input, options) under some variable
\* context and some outcome of the random source.  The random source is
\* consulted only when a Shuffle directive generates a permutation, and
\* whether one does so does not depend on what is drawn.
Resolve ==
    /\ round < (IF shape.family \in {"free", "wrap", "deep"}
                THEN MaxFreeRounds ELSE MaxRounds)
    /\ last.status \in {"none", "ok"} \/ round < MaxFailedRounds
    /\ \E ctx \in Contexts :
         \E r \in {peg_parse([ctx |-> ctx, rnd |-> Identity], store)} :
             IF r.drawn
             THEN \E rnd \in RandomOutcomes :
                      Record(peg_parse([ctx |-> ctx, rnd |-> rnd], store),
                             ctx)
             ELSE Record(r, ctx)

Next == Resolve

Spec == Init /\ [][Next]_vars

\* a Localization used on its own: no text is evaluated
LocInit ==
    /\ shape = [family |-> "free", text |-> <<>>]
    /\ input = <<>>
    /\ store = <<>>
    /\ round = 0
    /\ last = NoParse
    /\ outs = <<>>
    /\ allTrue = TRUE
    /\ Localization

LocNext ==
    \/ \E language \in LanguageNames, data \in Datas : load(language, data)
    \/ \E lang \in LanguageArgs : set_active(lang)
    \/ \E id \in QueryIds, language \in LanguageArgs : get(id, language)

LocSpec == LocInit /\ [][LocNext]_vars

--------------------------------------------------------------------------
(* Checked properties *)

NoBraces(s) == \A i \in 1..Len(s) : s[i] \notin {"{", "}"}

\* C1: an input with no '{' and no '}' (the empty string included) parses
\* successfully to exactly the input, and processEmbed is never called.
C1_PlainTextRoundTrip ==
    (round > 0 /\ NoBraces(input))
        => /\ last.status = "ok"
           /\ last.result = input
           /\ last.calls = <<>>

C1_Witness ==
    /\ round > 0
    /\ NoBraces(input)
    /\ InSeq("|", input) /\ InSeq("\n", input) /\ InSeq(":", input)
    /\ last.result = input

C1_WitnessEmpty == round > 0 /\ input = <<>> /\ last.status = "ok"

\* the kind the specification gives a directive that starts with marker m
MarkerKind(m) ==
    IF m \in {<<>>, peg_c14, peg_c14 \o <<" ">>} THEN "Stopping"
    ELSE IF m \in {<<"~">>, peg_c19} THEN "Shuffle"
    ELSE IF m \in {<<"&">>, peg_c24} THEN "Cycle"
    ELSE IF m \in {<<"!">>, peg_c29} THEN "OnlyOnce"
    ELSE "Conditional"

\* the authored directive has its closing brace
Complete(sh) == IF sh.family = "pipe" THEN sh.closed ELSE sh.family = "dash"

\* input is one complete directive the specification calls a list of this
\* kind, and every guard written in it was true in every round so far
Written(kind) ==
    /\ round > 0
    /\ Complete(shape)
    /\ MarkerKind(shape.marker) = kind
    /\ allTrue

\* input is one complete directive that processEmbed received as a list of
\* this kind in the last round, all guards true in every round so far
Received(kind) ==
    /\ round > 0
    /\ Complete(shape)
    /\ allTrue
    /\ last.status = "ok"
    /\ Len(last.calls) = 1
    /\ KindOf(SeqType(last.calls[1].type)) = kind

\* the text of branch number k, counted from 0
Branch(k) == BranchText(k + 1)

BranchTexts == {BranchText(i) : i \in 1..shape.n}

\* the last n results of the session
LastOuts(n) == SubSeq(outs, Len(outs) - n + 1, Len(outs))

StoppingOutputs ==
    /\ last.status = "ok"
    /\ last.result = Branch(Min(round - 1, shape.n - 1))
    /\ StateOf(store, 0).counter = round

CycleOutputs ==
    /\ last.status = "ok"
    /\ last.result = Branch((round - 1) % shape.n)

OnceOnlyOutputs ==
    /\ last.status = "ok"
    /\ last.result = IF round - 1 < shape.n THEN Branch(round - 1) ELSE <<>>

ShuffleOutputs ==
    /\ last.status = "ok"
    /\ last.result \in BranchTexts
    /\ Len(outs) = Min(round, Window)
    /\ (round % shape.n = 0)
           => \A b \in BranchTexts : InSeq(b, LastOuts(shape.n))
    /\ (shape.n > 1 /\ round > 1 /\ round % shape.n = 1)
           => outs[Len(outs)] # outs[Len(outs) - 1]

\* C2: a Stopping list with n branches, all guards true or absent, outputs
\* branch min(k, n-1) on its k-th evaluation (k from 0) and its counter
\* grows by one on every such evaluation.
C2_Stopping == Written("Stopping") => StoppingOutputs

\* the same for the directives processEmbed receives as Stopping lists
C2_StoppingAsReceived == Received("Stopping") => StoppingOutputs

\* {stopping:A|B} evaluated once: a Conditional on the guard "stopping"
C2_Witness ==
    /\ input = <<"{">> \o peg_c14 \o <<"A", "|", "B", "}">>
    /\ round = 1
    /\ last.calls[1].type = "expr"
    /\ last.result = BranchText(2)

C2_ReceivedWitness ==
    /\ Received("Stopping") /\ shape.n = 3 /\ round = 5
    /\ outs = <<BranchText(2), BranchText(3), BranchText(3), BranchText(3)>>

\* C3: a Cycle list with n branches, all guards true or absent, outputs
\* branch k mod n on its k-th evaluation (k from 0).
C3_Cycle == Written("Cycle") => CycleOutputs

\* the same for the directives processEmbed receives as Cycle lists
C3_CycleAsReceived == Received("Cycle") => CycleOutputs

\* {cycle:A|B} evaluated twice: the second branch both times
C3_Witness ==
    /\ input = <<"{">> \o peg_c24 \o <<"A", "|", "B", "}">>
    /\ round = 2
    /\ outs = <<BranchText(2), BranchText(2)>>

C3_ReceivedWitness ==
    /\ Received("Cycle") /\ shape.n = 3 /\ round = 5
    /\ outs = <<BranchText(2), BranchText(3), BranchText(1), BranchText(2)>>

\* C4: a OnceOnly list with n branches, all guards true or absent, outputs
\* branch k on its k-th evaluation for k < n and the empty string from the
\* n-th evaluation on; a Stopping, Cycle or Shuffle list is never exhausted:
\* it outputs a branch on every evaluation.
C4_OnceOnly ==
    /\ Written("OnlyOnce") => OnceOnlyOutputs
    /\ (Written("Stopping") \/ Written("Cycle") \/ Written("Shuffle"))
           => last.result \in BranchTexts

\* the same for the directives processEmbed receives as lists of the kind
C4_OnceOnlyAsReceived ==
    /\ Received("OnlyOnce") => OnceOnlyOutputs
    /\ (Received("Stopping") \/ Received("Cycle") \/ Received("Shuffle"))
           => last.result \in BranchTexts

\* {once:A} evaluated once: nothing is output
C4_Witness ==
    /\ input = <<"{">> \o peg_c29 \o <<"A", "}">>
    /\ round = 1
    /\ last.status = "ok"
    /\ last.result = <<>>

C4_ReceivedWitness ==
    /\ Received("OnlyOnce") /\ shape.n = 2 /\ round = 4
    /\ outs = <<BranchText(1), BranchText(2), <<>>, <<>>>>

\* C5: a Shuffle list with n branches, all eligible, outputs every branch
\* exactly once in each block of n evaluations, whatever the random source
\* draws; for n > 1 the first output of a block is not the last output of
\* the block before.
C5_Shuffle == Written("Shuffle") => ShuffleOutputs

\* the same for the directives processEmbed receives as Shuffle lists
C5_ShuffleAsReceived == Received("Shuffle") => ShuffleOutputs

\* {shuffle:A|B} evaluated twice: the second branch both times
C5_Witness ==
    /\ input = <<"{">> \o peg_c19 \o <<"A", "|", "B", "}">>
    /\ round = 2
    /\ outs = <<BranchText(2), BranchText(2)>>

C5_ReceivedWitness ==
    /\ Received("Shuffle") /\ shape.n = 3 /\ round = 6
    /\ LastOuts(4) = <<BranchText(1), BranchText(2), BranchText(1),
                       BranchText(3)>>

\* every branch of the authored list carries a guard
AllGuarded == shape.family = "dash" /\ shape.guarded = 1..shape.n

C7_InlineConditional ==
    (/\ round > 0
     /\ shape.family = "pipe"
     /\ shape.closed
     /\ MarkerKind(shape.marker) = "Conditional"
     /\ shape.n <= 2)
        => /\ last.status = "ok"
           /\ Len(last.calls) = 1
           /\ last.calls[1].type = "expr"
           /\ ~last.calls[1].multiline
           /\ last.evals = <<[expr |-> <<"x">>,
                              value |-> <<"x">> \in last.ctx]>>
           /\ last.calls[1].args[1].full = BranchText(1)
           /\ last.result = IF <<"x">> \in last.ctx THEN BranchText(1)
                            ELSE IF shape.n = 2 THEN BranchText(2)
                            ELSE <<>>
           /\ store = <<>>

\* {x: A|B} with x false after a round with x true
C7_Witness ==
    /\ input = <<"{", "x", ":", " ", "A", "|", "B", "}">>
    /\ round = 2
    /\ last.ctx = {}
    /\ last.result = BranchText(2)
    /\ ~allTrue

\* C8: a directive that starts with a sequence marker is passed to
\* processEmbed as the sequence type of the marker, in the inline and in
\* the multi-line form.
C8_MarkerDecidesKind ==
    (/\ round > 0
     /\ Complete(shape)
     /\ shape.marker # <<>>
     /\ MarkerKind(shape.marker) # "Conditional")
        => /\ last.status = "ok"
           /\ Len(last.calls) = 1
           /\ last.calls[1].type = MarkerKind(shape.marker)

\* {stopping:A|B} is passed as a Conditional whose guard is "stopping"
C8_Witness ==
    /\ input = <<"{">> \o peg_c14 \o <<"A", "|", "B", "}">>
    /\ round = 1
    /\ last.calls[1].type = "expr"
    /\ last.calls[1].expr = <<"s", "t", "o", "p", "p", "i", "n", "g">>

\* the symbol markers, and the word markers of multi-line lists of two or
\* more branches, are passed as the sequence type of the marker
C8_OtherMarkers ==
    (/\ round > 0
     /\ Complete(shape)
     /\ shape.marker # <<>>
     /\ MarkerKind(shape.marker) # "Conditional"
     /\ \/ Len(shape.marker) = 1
        \/ shape.family = "dash" /\ shape.n > 1)
        => /\ last.status = "ok"
           /\ Len(last.calls) = 1
           /\ last.calls[1].type = MarkerKind(shape.marker)

\* C9: processEmbed is called with multiline = true exactly for the
\* directives in which a line break follows the opening brace and the
\* optional type marker.
C9_MultilineIffNewline ==
    (round > 0 /\ Complete(shape) /\ last.status = "ok"
     /\ Len(last.calls) = 1)
        => (last.calls[1].multiline <=> shape.family = "dash")

\* {stopping:\r\n-A} is accepted by the inline rule
C9_Witness ==
    /\ input = <<"{">> \o peg_c14 \o <<"\r", "\n", "-", "A", "}">>
    /\ round = 1
    /\ last.status = "ok"
    /\ ~last.calls[1].multiline
    /\ last.calls[1].type = "expr"

\* without a word marker the form is decided by the line break
C9_OtherMarkers ==
    (round > 0 /\ Complete(shape) /\ last.status = "ok"
     /\ Len(last.calls) = 1 /\ Len(shape.marker) <= 1)
        => (last.calls[1].multiline <=> shape.family = "dash")

\* '{' followed by text without braces and line breaks
UnclosedInline(s) ==
    /\ Len(s) > 0
    /\ s[1] = "{"
    /\ \A i \in 2..Len(s) : s[i] \notin {"{", "}", "\n", "\r"}

\* C10: '{', an optional marker and pipe-separated branch texts without the
\* closing brace raise a SyntaxError located at the end of the input, with
\* end of input as what was found.
C10_UnclosedAtEnd ==
    (round > 0 /\ UnclosedInline(input))
        => /\ last.status = "SyntaxError"
           /\ last.found = ""
           /\ last.location.start.offset = Len(input)
           /\ last.location.end.offset = Len(input)
           /\ last.calls = <<>>

\* {stopping: A|B
C10_Witness ==
    /\ input = <<"{">> \o peg_c14 \o <<" ", "A", "|", "B">>
    /\ round = 1
    /\ last.status = "SyntaxError"
    /\ last.location.start.offset = 14

\* the greatest offset at which a match attempt failed
Furthest(attempts) ==
    CHOOSE m \in {attempts[i].pos : i \in 1..Len(attempts)} :
        \A i \in 1..Len(attempts) : attempts[i].pos <= m

\* what the attempts that failed at the offset expected, in their order
ExpectedAt(attempts, pos) ==
    [i \in 1..Len(SelectSeq(attempts, LAMBDA a : a.pos = pos)) |->
        SelectSeq(attempts, LAMBDA a : a.pos = pos)[i].expected]

\* C11: a SyntaxError is reported at the greatest offset at which any match
\* attempt of the parse failed, abandoned attempts included, with exactly
\* the expectations recorded at that offset; the furthest-failure offset
\* never decreases during a parse.
C11_FurthestFailure ==
    /\ last.monotone
    /\ last.status = "SyntaxError"
           => /\ last.attempts # <<>>
              /\ last.location.start.offset = Furthest(last.attempts)
              /\ last.expected
                     = ExpectedAt(last.attempts, Furthest(last.attempts))
              /\ last.found = CharAt(Furthest(last.attempts))

\* an error reported behind the first failure, at an offset where several
\* attempts failed: {x| fails first at offset 0 and is reported at 3
C11_Witness ==
    /\ input = <<"{", "x", "|">>
    /\ last.status = "SyntaxError"
    /\ last.attempts[1].pos = 0
    /\ last.location.start.offset = 3
    /\ Len(last.expected) > 1

\* what a parse handed processEmbed: for each call the offset the directive
\* starts at, its type, its form, and the span of each of its branches
Spans(calls) ==
    [i \in 1..Len(calls) |->
        [id |-> calls[i].id, type |-> calls[i].type,
         multiline |-> calls[i].multiline,
         locations |-> [j \in 1..Len(calls[i].args) |->
                           calls[i].args[j].location]]]

InnerId == 1 + Len(shape.outer) + (IF shape.first THEN 0 ELSE 2)
InnerBranch == IF shape.first THEN 1 ELSE 2

\* the call processEmbed got for the directive that starts at offset id
CallsOf(id) == SelectSeq(last.calls, LAMBDA c : c.id = id)

\* C13: a nested directive in a branch that this evaluation does not select
\* is not resolved, and its stored state is as before the evaluation.
C13_OnlySelectedResolved ==
    (/\ round > 0
     /\ shape.family = "nest"
     /\ last.status = "ok"
     /\ CallsOf(0)[1].idx # InnerBranch)
        => /\ CallsOf(InnerId) = <<>>
           /\ \A i \in 1..Len(last.calls) :
                  last.calls[i].id = InnerId
                      => last.calls[i].after = last.calls[i].before

\* {A|{B|C}} evaluated once: A is output, and {B|C} was resolved to B and
\* has advanced
C13_Witness ==
    /\ input = <<"{", "A", "|", "{", "B", "|", "C", "}", "}">>
    /\ round = 1
    /\ last.result = BranchText(1)
    /\ Len(CallsOf(3)) = 1
    /\ CallsOf(3)[1].out = BranchText(2)
    /\ StateOf(store, 3).counter = 1

\* the nested directive of the selected branch is resolved once, and its
\* output is the output of the outer directive
C13_SelectedResolved ==
    (/\ round > 0
     /\ shape.family = "nest"
     /\ last.status = "ok"
     /\ CallsOf(0)[1].idx = InnerBranch)
        => /\ Len(CallsOf(InnerId)) = 1
           /\ last.result = CallsOf(InnerId)[1].out

\* C14: there is a maximum nesting depth: an input nested deeper raises a
\* SyntaxError, and processEmbed is never reached deeper than the maximum.
C14_DepthBounded ==
    (round > 0 /\ shape.family = "deep")
        => \E max \in 0..(MaxDepth - 1) :
               /\ shape.depth > max => last.status = "SyntaxError"
               /\ Len(last.calls) <= max

\* the deepest input of the model is resolved, one call for each level
C14_Witness ==
    /\ shape.family = "deep"
    /\ shape.depth = MaxDepth
    /\ round = 1
    /\ last.status = "ok"
    /\ last.result = BranchText(1)
    /\ Len(last.calls) = MaxDepth

\* data has been loaded for the language
Loaded(lang) == lang # undefined /\ lang[1] \in DOMAIN recent

\* C15: assigning Localization.active a language that has no loaded data,
\* or undefined, throws and leaves the active language as it was; assigning
\* it a loaded language makes that language the active one.
C15_SetActive ==
    [][ret'.op = "set active"
           => IF Loaded(ret'.language)
              THEN ~ret'.threw /\ activeLanguage' = ret'.language
              ELSE ret'.threw /\ activeLanguage' = activeLanguage]_vars

\* "" was loaded and is the active language; assigning it threw
C15_Witness ==
    /\ ret.op = "set active"
    /\ ret.language = Some("")
    /\ "" \in DOMAIN languages
    /\ activeLanguage = Some("")
    /\ ret.threw

\* the same for the languages whose name is not the empty string
C15_SetActiveNamed ==
    [][(ret'.op = "set active" /\ ret'.language # Some(""))
           => IF Loaded(ret'.language)
              THEN ~ret'.threw /\ activeLanguage' = ret'.language
              ELSE ret'.threw /\ activeLanguage' = activeLanguage]_vars

\* C16: load makes its language the active one only when none is active
\* and leaves the active language alone otherwise; while no assignment to
\* active has been made, the active language is the first one loaded.
C16_LoadKeepsActive ==
    /\ [][ret'.op = "load"
              => activeLanguage' = IF activeLanguage = undefined
                                   THEN ret'.language
                                   ELSE activeLanguage]_vars
    /\ [](~assigned => activeLanguage = firstLoaded)

\* en was loaded first, de after it, and en is active
C16_Witness ==
    /\ ~assigned
    /\ firstLoaded = Some("en")
    /\ ret.op = "load"
    /\ ret.language = Some("de")
    /\ DOMAIN languages = {"en", "de"}
    /\ activeLanguage = Some("en")

\* what the most recent load of the language mapped id to
MostRecent(lang, id) ==
    IF ~Loaded(lang) THEN undefined
    ELSE IF id \notin DOMAIN recent[lang[1]] THEN undefined
    ELSE Some(recent[lang[1]][id])

\* C17: get(id, language) returns what the most recent load of the given
\* language, or of the active language when none is given, mapped id to,
\* and undefined when there is no such language, load or entry.
C17_Get ==
    ret.op = "get"
        => ret.value = MostRecent(IF ret.language = undefined
                                  THEN activeLanguage ELSE ret.language,
                                  ret.id)

\* "" was loaded with an entry for k; get("k", "") returned undefined
C17_Witness ==
    /\ ret.op = "get"
    /\ ret.language = Some("")
    /\ ret.id = "k"
    /\ "" \in DOMAIN languages
    /\ "k" \in DOMAIN languages[""]
    /\ ret.value = undefined

\* the same for the languages whose name is not the empty string
C17_GetNamed ==
    (/\ ret.op = "get"
     /\ ret.language # Some("")
     /\ ret.language = undefined => activeLanguage # Some(""))
        => ret.value = MostRecent(IF ret.language = undefined
                                  THEN activeLanguage ELSE ret.language,
                                  ret.id)

\* a language loaded twice: get returns the entry of the second load, and
\* undefined where the second load has no entry
C17_NamedWitness ==
    /\ ret.op = "get"
    /\ ret.language = undefined
    /\ activeLanguage = Some("en")
    /\ assigned
    /\ firstLoaded = Some("de")
    /\ ret.id = "k"
    /\ ret.value = Some("t")

\* the source text of a branch, and the character after it
SpanText(arg) == Substring(arg.location.start.offset, arg.location.end.offset)
NextChar(arg) == CharAt(arg.location.end.offset)

HasNone(chars, s) == \A ch \in chars : ~InSeq(ch, s)

\* the text of the branches that hold no nested directive: top-level text
\* runs up to a brace, the text of an inline branch up to a brace, a '|' or
\* a line break, the text of a multi-line branch up to a brace or one of
\* the characters multiExcluded
ClassesHold(multiExcluded) ==
    /\ (round > 0 /\ NoBraces(input)) => last.result = input
    /\ \A i \in 1..Len(last.calls) :
         \A j \in 1..Len(last.calls[i].args) :
           NoBraces(SpanText(last.calls[i].args[j]))
             => IF last.calls[i].multiline
                THEN /\ HasNone(multiExcluded,
                                Content(last.calls[i].args[j]))
                     /\ NextChar(last.calls[i].args[j])
                            \in {"-", "{", "}", ""}
                     /\ ~last.calls[i].args[j].hasExpr
                            => last.calls[i].args[j].full
                                   = Trim(SpanText(last.calls[i].args[j]))
                ELSE /\ HasNone({"|", "\r", "\n"},
                                SpanText(last.calls[i].args[j]))
                     /\ NextChar(last.calls[i].args[j])
                            \in {"|", "\r", "\n", "{", "}", ""}
                     /\ last.calls[i].args[j].full
                            = SpanText(last.calls[i].args[j])

\* C18: top-level text stops only at a brace; the text of an inline branch
\* also stops at '|' and at a line break; the text of a multi-line branch
\* stops only at a brace or a '-', so it may hold '|' and line breaks.
C18_CharacterClasses == ClassesHold({"-"})

\* a multi-line branch whose text holds a '|' and a line break
C18_Witness ==
    /\ shape.family = "wrap" /\ shape.multi
    /\ last.status = "ok"
    /\ Len(last.calls) = 1
    /\ last.calls[1].args[1].full = <<"|", "\n", "A">>
    /\ last.result = <<"|", "\n", "A">>

\* the text of a multi-line branch excludes what the text of an inline
\* branch excludes and the '-': it holds no '|' and no line break
C18_MultilineExcludesInline == ClassesHold({"-", "|", "\r", "\n"})

\* the content of a wrapped branch with its nested directives resolved:
\* {B} has one branch and outputs B
RECURSIVE Resolved(_)
Resolved(items) ==
    IF items = <<>> THEN <<>>
    ELSE (IF Head(items) = <<"{", "B", "}">> THEN <<"B">> ELSE Head(items))
             \o Resolved(Tail(items))

\* what a directive with the one wrapped branch is to output: the content
\* of a multi-line branch trimmed at its two ends, the content of an inline
\* branch as it is
WrappedOutput ==
    IF shape.multi
    THEN ~InSeq(<<"-">>, shape.content)
             => /\ last.status = "ok"
                /\ last.result = Trim(Resolved(shape.content))
    ELSE (~InSeq(<<"|">>, shape.content) /\ ~InSeq(<<"\n">>, shape.content))
             => /\ last.status = "ok"
                /\ last.result = Resolved(shape.content)

\* C19: the content of a multi-line branch is trimmed of the whitespace at
\* its two ends only, whitespace between branch text and a nested directive
\* is kept; the content of an inline branch is not trimmed at all.
C19_Trimming == (round > 0 /\ shape.family = "wrap") => WrappedOutput

\* the multi-line branch "A {B}" is output as AB
C19_Witness ==
    /\ shape.family = "wrap" /\ shape.multi
    /\ shape.content = <<<<"A">>, <<" ">>, <<"{", "B", "}">>>>
    /\ round = 1
    /\ last.status = "ok"
    /\ last.result = <<"A", "B">>

\* the same for the branches that hold no nested directive, and for the
\* inline branches
C19_TrimmingOfText ==
    (/\ round > 0
     /\ shape.family = "wrap"
     /\ shape.multi => ~InSeq(<<"{", "B", "}">>, shape.content))
        => WrappedOutput

\* whitespace kept inside a multi-line branch and around an inline branch
C19_TextWitness ==
    /\ shape.family = "wrap"
    /\ round = 1
    /\ \/ /\ shape.multi
          /\ shape.content = <<<<" ">>, <<"A">>, <<" ">>>>
          /\ last.result = <<"A">>
       \/ /\ ~shape.multi
          /\ shape.content = <<<<" ">>, <<"{", "B", "}">>, <<" ">>>>
          /\ last.result = <<" ", "B", " ">>

\* C20: a parse that raises a SyntaxError returns no output and has
\* resolved no directive: processEmbed was not called, and the stored
\* sequence state is as it was before the parse.
C20_NothingResolvedOnError ==
    [][last'.status = "SyntaxError"
           => /\ last'.result = <<>>
              /\ last'.calls = <<>>
              /\ store' = store]_vars

\* {}{ raised a SyntaxError at its end after {} was resolved and advanced
C20_Witness ==
    /\ input = <<"{", "}", "{">>
    /\ round = 1
    /\ last.status = "SyntaxError"
    /\ last.location.start.offset = 3
    /\ Len(last.calls) = 1
    /\ last.calls[1].id = 0
    /\ StateOf(store, 0).counter = 1

\* every directive for which processEmbed was called was called for once
EachOnce ==
    \A i, j \in 1..Len(last.calls) :
        last.calls[i].id = last.calls[j].id => i = j

\* C21: in a successful parse every directive of the source is resolved at
\* most once: processEmbed is not called twice for the directive of one
\* span, also when the inline rule was tried and abandoned before the
\* multi-line rule matched the enclosing directive.
C21_ResolvedOnce == last.status = "ok" => EachOnce

\* {stopping:\n-A{B|C}\n} evaluated once: the inline rule resolved {B|C} to
\* B and failed at the last line break, the multi-line rule resolved it
\* again, to C
C21_Witness ==
    /\ shape.family = "lines"
    /\ shape.marker = peg_c14
    /\ shape.inner = <<>>
    /\ shape.tail = <<"\n">>
    /\ round = 1
    /\ last.status = "ok"
    /\ Len(CallsOf(13)) = 2
    /\ CallsOf(13)[1].out = BranchText(2)
    /\ CallsOf(13)[2].out = BranchText(3)
    /\ last.result = BranchText(1) \o BranchText(3)
    /\ StateOf(store, 13).counter = 2

\* the multi-line directives whose Type is a word followed by a colon, with
\* a line break after the nested directive
WordMarkedLines ==
    /\ shape.family = "lines"
    /\ shape.marker \in {peg_c14, peg_c19, peg_c24, peg_c29}
    /\ shape.tail = <<"\n">>

\* every other directive is resolved once in a successful parse
C21_ResolvedOnceUnlessWordMarked ==
    (last.status = "ok" /\ ~WordMarkedLines) => EachOnce

\* {~\n-A{B|C}\n} evaluated once: {B|C} was resolved once, by the multi-line
\* rule
C21_SymbolWitness ==
    /\ shape.family = "lines"
    /\ shape.marker = <<"~">>
    /\ shape.tail = <<"\n">>
    /\ round = 1
    /\ last.status = "ok"
    /\ Len(CallsOf(5)) = 1
    /\ CallsOf(0)[1].multiline
    /\ last.result = BranchText(1) \o BranchText(2)

\* the directives resolved inside the span of the call c
NestedIn(c) ==
    {j \in 1..Len(last.calls) :
        /\ last.calls[j].id >= c.id
        /\ last.calls[j].id < c.end
        /\ <<last.calls[j].id, last.calls[j].end>> # <<c.id, c.end>>}

\* C22: parse terminates: every iteration of every repetition of the grammar
\* has consumed at least one character, and the span of every nested
\* directive lies strictly inside the span of the directive that contains
\* it, so each parse has come to an outcome.
C22_Terminates ==
    round > 0
        => /\ last.status \in {"ok", "SyntaxError", "DefinitionError"}
           /\ last.progress
           /\ \A i \in 1..Len(last.calls) :
                  /\ last.calls[i].end > last.calls[i].id
                  /\ last.calls[i].end <= Len(input)
                  /\ \A j \in NestedIn(last.calls[i]) :
                         /\ last.calls[j].id > last.calls[i].id
                         /\ last.calls[j].end < last.calls[i].end

\* {A|{B|C}} was parsed: the repetitions of Source, InlineSource and
\* Arguments have iterated, and the span of {B|C}, 3 to 8, is inside 0 to 9
C22_Witness ==
    /\ input = <<"{", "A", "|", "{", "B", "|", "C", "}", "}">>
    /\ round = 1
    /\ last.status = "ok"
    /\ last.progress
    /\ Len(last.calls) = 2
    /\ NestedIn(CallsOf(0)[1]) = {1}
    /\ <<CallsOf(3)[1].id, CallsOf(3)[1].end>> = <<3, 8>>
    /\ <<CallsOf(0)[1].id, CallsOf(0)[1].end>> = <<0, 9>>

\* the active language is undefined or loaded, and undefined only while
\* nothing has been loaded
ActiveIsLoaded ==
    /\ activeLanguage = undefined \/ activeLanguage[1] \in DOMAIN languages
    /\ activeLanguage = undefined <=> DOMAIN languages = {}

\* C23: in every reachable state of a Localization the active language is
\* undefined or a loaded language, it is undefined only while nothing has
\* been loaded, and once it is defined no load or assignment to active, a
\* failed one included, makes it undefined again.
C23_ActiveStaysLoaded ==
    /\ []ActiveIsLoaded
    /\ [][activeLanguage # undefined => activeLanguage' # undefined]_vars

\* two languages are loaded, "en" is active, and the last assignment to
\* active threw
C23_Witness ==
    /\ Cardinality(DOMAIN languages) >= 2
    /\ activeLanguage = Some("en")
    /\ ret.op = "set active"
    /\ ret.threw

====
